---- MODULE Spec2Model ----
(***************************************************************************)
(* Model of ml_tooling's plot_target_feature_distribution                  *)
(* (src/ml_tooling/plots/target_feature_distribution.py) and of            *)
(* SQLDataSet.__init__ (src/ml_tooling/data/sql.py).                       *)
(*                                                                         *)
(* One call of plot_target_feature_distribution is one behaviour of Spec:  *)
(* Init draws the arguments, every action is one statement group of the    *)
(* function body, pc is the position in the body.  Numbers are exact       *)
(* rationals <<numerator, denominator>> in lowest terms.                   *)
(***************************************************************************)
EXTENDS Integers, Sequences, FiniteSets

VARIABLES
    target,             \* argument: sequence of numbers, NaN allowed
    feature,            \* argument: sequence of category values, NaN allowed
    method,             \* argument: string
    n_boots,            \* argument: <<>> for None, <<k>> for the integer k
    ax,                 \* "None", "caller" (supplied) or "new" (plt.subplots)
    figures,            \* number of figures created by plt.subplots
    pc,                 \* position in the function body
    selected_agg_func,  \* "unset", "mean" or "median"
    feature_categories, \* <<>> until line 61 ran, then <<the array>>
    data,               \* <<>> until lines 66-71 ran, then <<the array>>
    percentile,         \* <<>> until line 75 ran, then <<the 2 x K array>>
    i,                  \* loop counter of lines 76-84
    boots_sample,       \* flat draw of the last loop iteration (line 79)
    boots_temp,         \* resample statistics of the last iteration (line 82)
    chart,              \* <<>> or <<arguments handed to _plot_barh>>
    error,              \* <<>> or <<[cls, msg]>> of the raised exception
    result,             \* <<>> or <<the returned axis>>
    objs,               \* SQLDataSet objects constructed so far
    sql_error           \* outcome of the last SQLDataSet construction

plotVars == <<target, feature, method, n_boots, ax, figures, pc,
              selected_agg_func, feature_categories, data, percentile, i,
              boots_sample, boots_temp, chart, error, result>>
sqlVars == <<objs, sql_error>>
vars == <<target, feature, method, n_boots, ax, figures, pc,
          selected_agg_func, feature_categories, data, percentile, i,
          boots_sample, boots_temp, chart, error, result, objs, sql_error>>

----------------------------------------------------------------------------
(* Bounds of the model *)

MaxLen == 3         \* longest enumerated target/feature without NaN
MaxNaNLen == 2      \* longest enumerated target/feature with NaN
MaxBoots == 2       \* largest n_boots
MaxDraws == 6       \* most draws per category for the enumerated inputs
Wide == 1           \* wide inputs have MaxCategories-Wide..MaxCategories+Wide+1 categories
MaxObjs == 3        \* SQLDataSet constructions per behaviour

(* Program constants *)

MaxCategories == 15
NaN == -1

TargetVals == {1, 5}
CatVals == {1, 2}
Methods == {"mean", "median", "mode"}

----------------------------------------------------------------------------
(* Exact rational arithmetic *)

RECURSIVE GCD(_, _)
GCD(a, b) == IF b = 0 THEN a ELSE GCD(b, a % b)

Abs(n) == IF n < 0 THEN -n ELSE n

Norm(r) ==
    LET g == GCD(Abs(r[1]), r[2])
    IN  <<r[1] \div g, r[2] \div g>>

RAdd(a, b) == Norm(<<a[1] * b[2] + b[1] * a[2], a[2] * b[2]>>)
RSub(a, b) == Norm(<<a[1] * b[2] - b[1] * a[2], a[2] * b[2]>>)
RMul(a, b) == Norm(<<a[1] * b[1], a[2] * b[2]>>)
RLe(a, b) == a[1] * b[2] <= b[1] * a[2]
RInt(n) == <<n, 1>>

RECURSIVE SumSeq(_)
SumSeq(s) == IF s = <<>> THEN 0 ELSE Head(s) + SumSeq(Tail(s))

Range(s) == {s[k] : k \in 1..Len(s)}

Min(S) == CHOOSE x \in S : \A y \in S : x <= y

RECURSIVE SortedSeq(_)
SortedSeq(S) ==
    IF S = {} THEN <<>> ELSE <<Min(S)>> \o SortedSeq(S \ {Min(S)})

RemoveAt(s, k) == SubSeq(s, 1, k - 1) \o SubSeq(s, k + 1, Len(s))

RECURSIVE SortInts(_)
SortInts(s) ==
    IF s = <<>> THEN <<>>
    ELSE LET k == CHOOSE k \in 1..Len(s) : \A j \in 1..Len(s) : s[k] <= s[j]
         IN  <<s[k]>> \o SortInts(RemoveAt(s, k))

RECURSIVE SortR(_)
SortR(s) ==
    IF s = <<>> THEN <<>>
    ELSE LET k == CHOOSE k \in 1..Len(s) : \A j \in 1..Len(s) : RLe(s[k], s[j])
         IN  <<s[k]>> \o SortR(RemoveAt(s, k))

----------------------------------------------------------------------------
(* numpy operations used by plot_target_feature_distribution *)

\* mutant of HasNaN: np.isnan(x).all()
HasNaNAll(s) == \A k \in 1..Len(s) : s[k] = NaN

\* np.isnan(x).any()
HasNaN(s) == \E k \in 1..Len(s) : s[k] = NaN

RECURSIVE FirstSeen(_)
\* mutant of Unique: the distinct values in order of first appearance
FirstSeen(f) ==
    IF f = <<>> THEN <<>>
    ELSE LET rest == FirstSeen(SubSeq(f, 1, Len(f) - 1))
         IN  IF f[Len(f)] \in Range(rest) THEN rest ELSE Append(rest, f[Len(f)])

\* np.unique(feature): the distinct values, ascending
Unique(f) == SortedSeq(Range(f))

\* target[feature == category]: the entries of t at the positions where f
\* equals c, in their order in t
Masked(t, f, c) ==
    LET idx == SortedSeq({k \in 1..Len(f) : f[k] = c})
    IN  [j \in 1..Len(idx) |-> t[idx[j]]]

\* np.mean of a non-empty sequence of integers
Mean(s) == Norm(<<SumSeq(s), Len(s)>>)

\* mutant of Median: the middle of the unsorted sequence
MedianUnsorted(s) ==
    LET n == Len(s)
    IN  IF n % 2 = 1 THEN RInt(s[(n + 1) \div 2])
        ELSE Norm(<<s[n \div 2] + s[n \div 2 + 1], 2>>)

\* np.median of a non-empty sequence of integers
Median(s) ==
    LET srt == SortInts(s)
        n == Len(s)
    IN  IF n % 2 = 1 THEN RInt(srt[(n + 1) \div 2])
        ELSE Norm(<<srt[n \div 2] + srt[n \div 2 + 1], 2>>)

\* agg_func_mapping = {"mean": np.mean, "median": np.median}
agg_func_mapping == {"mean", "median"}

Apply(func, s) == IF func = "mean" THEN Mean(s) ELSE Median(s)

\* data = [selected_agg_func(target[feature == category]) for category in ...]
AggregateAll(func, t, f, cats) ==
    [k \in 1..Len(cats) |-> Apply(func, Masked(t, f, cats[k]))]

\* mutant of Reshape: flat.reshape((-1, rows))
ReshapeTransposed(flat, rows) ==
    LET n == Len(flat) \div rows
    IN  [r \in 1..n |-> [c \in 1..rows |-> flat[(r - 1) * rows + c]]]

\* flat.reshape((rows, -1)): row-major matrix with the given number of rows
Reshape(flat, rows) ==
    LET cols == Len(flat) \div rows
    IN  [r \in 1..rows |-> [c \in 1..cols |-> flat[(r - 1) * cols + c]]]

\* mutant of MeanAxis0: np.sum(m, axis=0)
SumAxis0(m) ==
    [c \in 1..Len(m[1]) |-> RInt(SumSeq([r \in 1..Len(m) |-> m[r][c]]))]

\* np.mean(m, axis=0): one mean per column
MeanAxis0(m) ==
    [c \in 1..Len(m[1]) |-> Mean([r \in 1..Len(m) |-> m[r][c]])]

\* np.percentile(a, q) with linear interpolation; q is given in tenths of a
\* percent (25 for 2.5, 975 for 97.5); a is a non-empty sequence of rationals
Percentile(a, q) ==
    LET srt == SortR(a)
        pos == q * (Len(a) - 1)
        lo == pos \div 1000
        fr == pos % 1000
    IN  IF fr = 0 THEN srt[lo + 1]
        ELSE RAdd(srt[lo + 1],
                  RMul(<<fr, 1000>>, RSub(srt[lo + 2], srt[lo + 1])))

\* mutant of Truthy: if n_boots is not None
NotNone(n) == n # <<>>

\* if n_boots:
Truthy(n) == n # <<>> /\ n[1] # 0

VizErrorNaN ==
    [cls |-> "VizError",
     msg |-> "Target feature distribution plot only works if feature and target do not contain NaN Values"]
VizErrorLimit == [cls |-> "VizError", msg |-> "Should there be a limit"]
KeyError == [cls |-> "KeyError", msg |-> "method"]
ValueError == [cls |-> "ValueError", msg |-> "negative dimensions are not allowed"]
AxvlineError == [cls |-> "AttributeError", msg |-> "y"]

----------------------------------------------------------------------------
(* Arguments of the call *)

SeqsUpTo(V, n) == UNION {[1..k -> V] : k \in 0..n}

\* every NaN-free pair up to MaxLen, every pair up to MaxNaNLen
SmallInputs ==
    {<<t, f>> : t \in SeqsUpTo(TargetVals, MaxLen),
                f \in SeqsUpTo(CatVals, MaxLen)}
    \cup {<<t, f>> : t \in SeqsUpTo(TargetVals \cup {NaN}, MaxNaNLen),
                     f \in SeqsUpTo(CatVals \cup {NaN}, MaxNaNLen)}

\* k distinct categories in descending order, followed by dup repeats of 1
WideFeature(k, dup) ==
    [j \in 1..(k + dup) |-> IF j <= k THEN k + 1 - j ELSE 1]

WideTarget(n) == [j \in 1..n |-> IF j % 2 = 1 THEN 1 ELSE 5]

WideInputs ==
    {<<[WideTarget(k + dup) EXCEPT ![1] = IF tn THEN NaN ELSE @],
       [WideFeature(k, dup) EXCEPT ![k] = IF fn THEN NaN ELSE @]>> :
        k \in (MaxCategories - Wide)..(MaxCategories + Wide + 1),
        dup \in {0, 1}, tn \in BOOLEAN, fn \in BOOLEAN}

ExampleInputs == {<<<<1, 1, 1, 5, 5, 5>>, <<1, 1, 1, 2, 2, 2>>>>}

Inputs ==
    {in \in SmallInputs : Len(in[1]) = Len(in[2])}
        \cup WideInputs \cup ExampleInputs

BootsArgs == {<<>>} \cup {<<k>> : k \in (-1)..MaxBoots}

PlotInit ==
    /\ \E in \in Inputs, nb \in BootsArgs :
         /\ (in \in SmallInputs /\ nb # <<>>) => nb[1] * Len(in[1]) <= MaxDraws
         /\ target = in[1]
         /\ feature = in[2]
         /\ n_boots = nb
    /\ method \in Methods
    /\ ax \in {"None", "caller"}
    /\ figures = 0
    /\ pc = "check_nan"
    /\ selected_agg_func = "unset"
    /\ feature_categories = <<>>
    /\ data = <<>>
    /\ percentile = <<>>
    /\ i = 0
    /\ boots_sample = <<>>
    /\ boots_temp = <<>>
    /\ chart = <<>>
    /\ error = <<>>
    /\ result = <<>>

Raise(e) == error' = <<e>> /\ pc' = "raised"

----------------------------------------------------------------------------
(* The body of plot_target_feature_distribution *)

\* lines 48-52
CheckNaN ==
    /\ pc = "check_nan"
    /\ IF HasNaN(target) \/ HasNaN(feature)
       THEN Raise(VizErrorNaN)
       ELSE pc' = "make_ax" /\ error' = error
    /\ UNCHANGED sqlVars
    /\ UNCHANGED <<target, feature, method, n_boots, ax, figures,
                   selected_agg_func, feature_categories, data, percentile,
                   i, boots_sample, boots_temp, chart, result>>

\* lines 54-55
MakeAx ==
    /\ pc = "make_ax"
    /\ IF ax = "None"
       THEN ax' = "new" /\ figures' = figures + 1
       ELSE ax' = ax /\ figures' = figures
    /\ pc' = "select"
    /\ UNCHANGED sqlVars
    /\ UNCHANGED <<target, feature, method, n_boots, selected_agg_func,
                   feature_categories, data, percentile, i, boots_sample,
                   boots_temp, chart, error, result>>

\* mutant of SelectAgg: agg_func_mapping.get(method, np.mean)
SelectAggDefault ==
    /\ pc = "select"
    /\ selected_agg_func' = IF method \in agg_func_mapping THEN method ELSE "mean"
    /\ pc' = "unique"
    /\ UNCHANGED sqlVars
    /\ UNCHANGED <<target, feature, method, n_boots, ax, figures,
                   feature_categories, data, percentile, i, boots_sample,
                   boots_temp, chart, error, result>>

\* lines 57-59
SelectAgg ==
    /\ pc = "select"
    /\ IF method \in agg_func_mapping
       THEN selected_agg_func' = method /\ pc' = "unique" /\ error' = error
       ELSE selected_agg_func' = selected_agg_func /\ Raise(KeyError)
    /\ UNCHANGED sqlVars
    /\ UNCHANGED <<target, feature, method, n_boots, ax, figures,
                   feature_categories, data, percentile, i, boots_sample,
                   boots_temp, chart, result>>

\* line 61
UniqueCats ==
    /\ pc = "unique"
    /\ feature_categories' = <<Unique(feature)>>
    /\ pc' = "limit"
    /\ UNCHANGED sqlVars
    /\ UNCHANGED <<target, feature, method, n_boots, ax, figures,
                   selected_agg_func, data, percentile, i, boots_sample,
                   boots_temp, chart, error, result>>

\* mutant of CheckLimit: len(feature_categories) >= 15
CheckLimitGe ==
    /\ pc = "limit"
    /\ IF Len(feature_categories[1]) >= MaxCategories
       THEN Raise(VizErrorLimit)
       ELSE pc' = "aggregate" /\ error' = error
    /\ UNCHANGED sqlVars
    /\ UNCHANGED <<target, feature, method, n_boots, ax, figures,
                   selected_agg_func, feature_categories, data, percentile,
                   i, boots_sample, boots_temp, chart, result>>

\* lines 63-64
CheckLimit ==
    /\ pc = "limit"
    /\ IF Len(feature_categories[1]) > MaxCategories
       THEN Raise(VizErrorLimit)
       ELSE pc' = "aggregate" /\ error' = error
    /\ UNCHANGED sqlVars
    /\ UNCHANGED <<target, feature, method, n_boots, ax, figures,
                   selected_agg_func, feature_categories, data, percentile,
                   i, boots_sample, boots_temp, chart, result>>

\* lines 66-71
Aggregate ==
    /\ pc = "aggregate"
    /\ data' = <<AggregateAll(selected_agg_func, target, feature,
                              feature_categories[1])>>
    /\ pc' = "boots"
    /\ UNCHANGED sqlVars
    /\ UNCHANGED <<target, feature, method, n_boots, ax, figures,
                   selected_agg_func, feature_categories, percentile, i,
                   boots_sample, boots_temp, chart, error, result>>

\* line 73, n_boots falsy
BootsSkip ==
    /\ pc = "boots"
    /\ ~Truthy(n_boots)
    /\ pc' = "plot"
    /\ UNCHANGED sqlVars
    /\ UNCHANGED <<target, feature, method, n_boots, ax, figures,
                   selected_agg_func, feature_categories, data, percentile,
                   i, boots_sample, boots_temp, chart, error, result>>

\* lines 73-76, n_boots truthy: percentile = np.zeros((2, K)), i = 0
BootsEnter ==
    /\ pc = "boots"
    /\ Truthy(n_boots)
    /\ percentile' = <<[k \in 1..Len(feature_categories[1]) |->
                            <<RInt(0), RInt(0)>>]>>
    /\ i' = 0
    /\ pc' = IF Len(feature_categories[1]) = 0 THEN "plot" ELSE "boots_loop"
    /\ UNCHANGED sqlVars
    /\ UNCHANGED <<target, feature, method, n_boots, ax, figures,
                   selected_agg_func, feature_categories, data,
                   boots_sample, boots_temp, chart, error, result>>

\* lines 77-84, one iteration of the loop with a non-negative size
BootsIter ==
    /\ pc = "boots_loop"
    /\ n_boots[1] > 0
    /\ LET category == feature_categories[1][i + 1]
           data_temp == Masked(target, feature, category)
           size == n_boots[1] * Len(data_temp)
       IN  \E flat \in [1..size -> Range(data_temp)] :
             LET means == MeanAxis0(Reshape(flat, Len(data_temp)))
             IN  /\ boots_sample' = flat
                 /\ boots_temp' = means
                 /\ percentile' =
                        <<[percentile[1] EXCEPT ![i + 1] =
                             <<Percentile(means, 25), Percentile(means, 975)>>]>>
    /\ i' = i + 1
    /\ pc' = IF i + 1 = Len(feature_categories[1]) THEN "plot" ELSE "boots_loop"
    /\ UNCHANGED sqlVars
    /\ UNCHANGED <<target, feature, method, n_boots, ax, figures,
                   selected_agg_func, feature_categories, data, chart,
                   error, result>>

\* lines 77-81 with a negative n_boots: np.random.choice rejects the size
BootsNegative ==
    /\ pc = "boots_loop"
    /\ n_boots[1] < 0
    /\ Raise(ValueError)
    /\ UNCHANGED sqlVars
    /\ UNCHANGED <<target, feature, method, n_boots, ax, figures,
                   selected_agg_func, feature_categories, data, percentile,
                   i, boots_sample, boots_temp, chart, result>>

\* lines 86-95: the categories, the aggregates and the error bars are handed
\* to _plot_barh, which draws on ax and returns it
PlotBarh ==
    /\ pc = "plot"
    /\ chart' = <<[categories |-> feature_categories[1],
                   data |-> data[1],
                   x_label |-> method,
                   ax |-> ax,
                   xerr |-> IF Truthy(n_boots) THEN percentile ELSE <<>>]>>
    /\ pc' = "axvline"
    /\ UNCHANGED sqlVars
    /\ UNCHANGED <<target, feature, method, n_boots, ax, figures,
                   selected_agg_func, feature_categories, data, percentile,
                   i, boots_sample, boots_temp, error, result>>

\* line 97: axvline is called with the keyword y, which is not one of its
\* parameters; whether the charting library accepts it is outside the source
AxvlineDraws ==
    /\ pc = "axvline"
    /\ pc' = "return"
    /\ UNCHANGED sqlVars
    /\ UNCHANGED <<target, feature, method, n_boots, ax, figures,
                   selected_agg_func, feature_categories, data, percentile,
                   i, boots_sample, boots_temp, chart, error, result>>

AxvlineRejects ==
    /\ pc = "axvline"
    /\ Raise(AxvlineError)
    /\ UNCHANGED sqlVars
    /\ UNCHANGED <<target, feature, method, n_boots, ax, figures,
                   selected_agg_func, feature_categories, data, percentile,
                   i, boots_sample, boots_temp, chart, result>>

\* line 99
Return ==
    /\ pc = "return"
    /\ result' = <<ax>>
    /\ pc' = "done"
    /\ UNCHANGED sqlVars
    /\ UNCHANGED <<target, feature, method, n_boots, ax, figures,
                   selected_agg_func, feature_categories, data, percentile,
                   i, boots_sample, boots_temp, chart, error>>

----------------------------------------------------------------------------
(* SQLDataSet.__init__ *)

\* Python values passed as conn: their type and their identity
Connectables == {"Engine", "Connection"}

Conns ==
    {[type |-> "Engine", val |-> "engine_a", kwargs |-> "pool_size=5"],
     [type |-> "Connection", val |-> "connection_b", kwargs |-> ""],
     [type |-> "str", val |-> "sqlite:///a.db", kwargs |-> ""],
     [type |-> "str", val |-> "postgresql://h/b", kwargs |-> ""],
     [type |-> "NoneType", val |-> "None", kwargs |-> ""],
     [type |-> "int", val |-> "42", kwargs |-> ""]}

EngineKwargs == {"", "echo=True"}

\* sa.create_engine(conn, **engine_kwargs)
create_engine(url, kw) == [type |-> "Engine", val |-> url, kwargs |-> kw]

\* mutant of InitEngine: create_engine(conn) without the engine_kwargs
InitEngineNoKwargs(conn, kw) ==
    IF conn.type \in Connectables THEN <<conn>>
    ELSE IF conn.type = "str" THEN <<create_engine(conn.val, "")>>
    ELSE <<>>

\* lines 12-17: the engine attribute after __init__, <<>> when it raised
InitEngine(conn, kw) ==
    IF conn.type \in Connectables THEN <<conn>>
    ELSE IF conn.type = "str" THEN <<create_engine(conn.val, kw)>>
    ELSE <<>>

\* lines 11-17
SQLDataSetInit ==
    /\ Len(objs) < MaxObjs
    /\ \E conn \in Conns, kw \in EngineKwargs :
         LET engine == InitEngine(conn, kw)
         IN  /\ objs' = Append(objs, [conn |-> conn, engine_kwargs |-> kw,
                                      engine |-> engine])
             /\ sql_error' = IF engine = <<>> THEN <<"ValueError">> ELSE <<>>
    /\ UNCHANGED plotVars

SQLInit == objs = <<>> /\ sql_error = <<>>

\* the plotting function is not running
PlotIdle ==
    /\ target = <<>>
    /\ feature = <<>>
    /\ method = "mean"
    /\ n_boots = <<>>
    /\ ax = "None"
    /\ figures = 0
    /\ pc = "idle"
    /\ selected_agg_func = "unset"
    /\ feature_categories = <<>>
    /\ data = <<>>
    /\ percentile = <<>>
    /\ i = 0
    /\ boots_sample = <<>>
    /\ boots_temp = <<>>
    /\ chart = <<>>
    /\ error = <<>>
    /\ result = <<>>

----------------------------------------------------------------------------
(* Specifications *)

Init == PlotInit /\ SQLInit

Next ==
    \/ CheckNaN
    \/ MakeAx
    \/ SelectAgg
    \/ UniqueCats
    \/ CheckLimit
    \/ Aggregate
    \/ BootsSkip
    \/ BootsEnter
    \/ BootsIter
    \/ BootsNegative
    \/ PlotBarh
    \/ AxvlineDraws
    \/ AxvlineRejects
    \/ Return

Spec == Init /\ [][Next]_vars

InitSQL == PlotIdle /\ SQLInit

NextSQL == SQLDataSetInit

SpecSQL == InitSQL /\ [][NextSQL]_vars

----------------------------------------------------------------------------
(* Vocabulary of the properties, stated over the arguments of the call *)

ContainsNaN(s) == NaN \in Range(s)

NoMissing == ~ContainsNaN(target) /\ ~ContainsNaN(feature)

Distinct == Range(feature)

Recognized == method = "mean" \/ method = "median"

BootsPositive == n_boots # <<>> /\ n_boots[1] > 0

BootsOff == n_boots = <<>> \/ n_boots = <<0>>

\* the positions of the feature entries equal to category c
Positions(c) == {k \in 1..Len(feature) : feature[k] = c}

TargetsAt(S) == {target[k] : k \in S}

RECURSIVE SumTargetAt(_)
SumTargetAt(S) ==
    IF S = {} THEN 0
    ELSE LET k == CHOOSE k \in S : TRUE
         IN  target[k] + SumTargetAt(S \ {k})

\* the k-th smallest target value among the positions S, with multiplicity
KthSmallest(S, k) ==
    CHOOSE v \in TargetsAt(S) :
        /\ Cardinality({j \in S : target[j] <= v}) >= k
        /\ Cardinality({j \in S : target[j] >= v}) >= Cardinality(S) - k + 1

IsMeanOf(r, S) == r[1] * Cardinality(S) = r[2] * SumTargetAt(S)

IsMedianOf(r, S) ==
    LET n == Cardinality(S)
    IN  r[1] * 2 = r[2] * (KthSmallest(S, (n + 1) \div 2)
                           + KthSmallest(S, n \div 2 + 1))

\* r lies between the smallest and the largest target value at positions S
WithinTargets(r, S) ==
    /\ \E v \in TargetsAt(S) : RLe(RInt(v), r)
    /\ \E v \in TargetsAt(S) : RLe(r, RInt(v))

AfterAggregate == pc \in {"boots", "boots_loop", "plot", "axvline", "return", "done"}

----------------------------------------------------------------------------
(* C1: for inputs without missing values and with at most 15 distinct     *)
(* feature values, the category sequence that is aggregated over and       *)
(* handed to the chart holds every distinct value of feature exactly once, *)
(* holds no other value, is ascending, and has one aggregate per category. *)
(* With a recognized method such a call always gets to the aggregates and, *)
(* unless a negative n_boots is rejected, to the chart.                    *)
C1_OneResultPerCategory ==
    /\ data # <<>> =>
         LET cats == feature_categories[1]
         IN  /\ Len(data[1]) = Len(cats)
             /\ \A v \in Distinct :
                  Cardinality({k \in 1..Len(cats) : cats[k] = v}) = 1
             /\ \A k \in 1..Len(cats) : cats[k] \in Distinct
             /\ \A j, k \in 1..Len(cats) : j < k => cats[j] < cats[k]
    /\ chart # <<>> =>
         /\ chart[1].categories = feature_categories[1]
         /\ chart[1].data = data[1]
    /\ (NoMissing /\ Cardinality(Distinct) <= MaxCategories /\ Recognized) =>
         /\ AfterAggregate => data # <<>>
         /\ pc \in {"axvline", "return", "done"} => chart # <<>>
         /\ (pc = "raised" /\ chart = <<>>) => error = <<ValueError>>

C1_Witness ==
    /\ chart # <<>>
    /\ Len(chart[1].categories) = MaxCategories
    /\ Len(feature) > MaxCategories
    /\ feature[1] > feature[2]

C3_NaNRaisesFirst ==
    (ContainsNaN(target) \/ ContainsNaN(feature)) =>
        /\ pc \in {"check_nan", "raised"}
        /\ pc = "raised" => error = <<VizErrorNaN>>
        /\ pc = "check_nan" => error = <<>>
        /\ figures = 0
        /\ ax # "new"
        /\ selected_agg_func = "unset"
        /\ feature_categories = <<>>
        /\ data = <<>>
        /\ percentile = <<>>
        /\ chart = <<>>
        /\ result = <<>>

C3_Witness ==
    /\ pc = "raised"
    /\ error = <<VizErrorNaN>>
    /\ ContainsNaN(target)
    /\ ~ContainsNaN(feature)
    /\ Cardinality(Distinct) > MaxCategories
    /\ ~Recognized
    /\ ax = "None"

(* C4 as stated: a feature without NaN and with more than 15 distinct      *)
(* values makes the call end in a VizError raised after the categories are *)
(* enumerated and before any aggregate.                                    *)
C4_Original ==
    (~ContainsNaN(feature) /\ Cardinality(Distinct) > MaxCategories
        /\ pc \in {"raised", "done"}) =>
        /\ error # <<>>
        /\ error[1].cls = "VizError"
        /\ feature_categories # <<>>
        /\ data = <<>>

(* C4 amended: when neither target nor feature has a NaN and the method is *)
(* recognized, more than 15 distinct feature values make the call raise    *)
(* the limit VizError after the categories are enumerated and before any   *)
(* aggregate or bootstrap; with 15 or fewer the limit error never occurs.  *)
C4_LimitAfterEnumeration ==
    /\ (NoMissing /\ Recognized /\ Cardinality(Distinct) > MaxCategories) =>
         /\ pc \in {"check_nan", "make_ax", "select", "unique", "limit", "raised"}
         /\ pc = "raised" =>
              /\ error = <<VizErrorLimit>>
              /\ feature_categories # <<>>
              /\ Len(feature_categories[1]) = Cardinality(Distinct)
         /\ data = <<>>
         /\ percentile = <<>>
         /\ boots_sample = <<>>
         /\ chart = <<>>
    /\ Cardinality(Distinct \ {NaN}) <= MaxCategories => error # <<VizErrorLimit>>

C4_Witness ==
    /\ pc = "raised"
    /\ error = <<VizErrorLimit>>
    /\ feature_categories # <<>>
    /\ Len(feature_categories[1]) = MaxCategories + 1
    /\ data = <<>>

(* C5: with a method other than "mean" and "median" the call never gets    *)
(* past the selection of the function: it ends in an error, computes no    *)
(* aggregate, draws no chart and returns no axis.                          *)
C5_UnknownMethodRejected ==
    ~Recognized =>
        /\ pc \in {"check_nan", "make_ax", "select", "raised"}
        /\ pc = "raised" => (error = <<KeyError>> \/ error = <<VizErrorNaN>>)
        /\ selected_agg_func = "unset"
        /\ data = <<>>
        /\ chart = <<>>
        /\ result = <<>>

C5_Witness ==
    /\ ~Recognized
    /\ NoMissing
    /\ Len(target) > 0
    /\ pc = "raised"
    /\ error = <<KeyError>>

(* C6: a call that ends in a validation failure (NaN, more than 15         *)
(* categories, unrecognized method) has created no figure and has drawn    *)
(* nothing.                                                                *)
C6_NoSideEffectOnFailure ==
    (error = <<VizErrorNaN>> \/ error = <<VizErrorLimit>> \/ error = <<KeyError>>) =>
        /\ figures = 0
        /\ chart = <<>>

(* C7: with a positive n_boots, in every computed column of percentile the *)
(* lower bound is at most the upper bound and both lie between the minimum *)
(* and the maximum of the category's target subset, whatever was drawn.    *)
C7_IntervalWithinSubset ==
    (BootsPositive /\ percentile # <<>>) =>
        /\ \A k \in 1..i :
             LET S == Positions(feature_categories[1][k])
                 col == percentile[1][k]
             IN  /\ RLe(col[1], col[2])
                 /\ WithinTargets(col[1], S)
                 /\ WithinTargets(col[2], S)
        /\ chart # <<>> => i = Len(feature_categories[1])

C7_Witness ==
    /\ BootsPositive
    /\ chart # <<>>
    /\ chart[1].xerr # <<>>
    /\ \E k \in 1..Len(chart[1].xerr[1]) :
         LET col == chart[1].xerr[1][k]
         IN  col[1] # col[2] /\ RLe(col[1], col[2])

(* C8: SQLDataSet construction dispatches on the type of conn: a           *)
(* Connectable is stored unchanged as the engine, a string becomes the     *)
(* engine create_engine builds from it and the engine_kwargs, any other    *)
(* value raises ValueError and leaves the object without an engine; every  *)
(* construction that did not raise has set the engine.                     *)
C8_ConstructorDispatch ==
    /\ \A k \in 1..Len(objs) :
         LET o == objs[k]
         IN  /\ o.conn.type \in {"Engine", "Connection"} => o.engine = <<o.conn>>
             /\ o.conn.type = "str" =>
                  o.engine = <<[type |-> "Engine", val |-> o.conn.val,
                                kwargs |-> o.engine_kwargs]>>
             /\ o.conn.type \notin {"Engine", "Connection", "str"} =>
                  o.engine = <<>>
    /\ objs = <<>> => sql_error = <<>>
    /\ objs # <<>> =>
         LET last == objs[Len(objs)]
         IN  /\ sql_error \in {<<>>, <<"ValueError">>}
             /\ sql_error = <<"ValueError">> <=>
                  last.conn.type \notin {"Engine", "Connection", "str"}
             /\ sql_error = <<>> => last.engine # <<>>

C8_Witness ==
    /\ Len(objs) = 3
    /\ objs[1].conn.type = "Connection" /\ objs[1].engine = <<objs[1].conn>>
    /\ objs[2].conn.type = "str" /\ objs[2].engine_kwargs = "echo=True"
    /\ objs[2].engine # <<>> /\ objs[2].engine[1].kwargs = "echo=True"
    /\ objs[3].conn.type = "NoneType" /\ objs[3].engine = <<>>
    /\ sql_error = <<"ValueError">>

RECURSIVE SumDraws(_, _, _)
\* the sum of the draws c, c + n, c + 2n, ... (r of them) of boots_sample
SumDraws(c, n, r) ==
    IF r = 0 THEN 0 ELSE boots_sample[(r - 1) * n + c] + SumDraws(c, n, r - 1)

BetweenResampleMeans(r) ==
    /\ \E c \in 1..Len(boots_temp) : RLe(boots_temp[c], r)
    /\ \E c \in 1..Len(boots_temp) : RLe(r, boots_temp[c])

(* C9: with a positive n_boots, the iteration for a category with subset   *)
(* size s draws n_boots * s values from that category's targets only,      *)
(* forms exactly n_boots resamples of s draws each, takes the arithmetic   *)
(* mean of each resample whatever the method, and the interval is taken    *)
(* over those n_boots means (exactly so for n_boots 1 and 2).              *)
C9_BootstrapResampleMeans ==
    (BootsPositive /\ i >= 1) =>
        LET S == Positions(feature_categories[1][i])
            s == Cardinality(S)
            n == n_boots[1]
            col == percentile[1][i]
        IN  /\ Len(boots_sample) = n * s
            /\ \A d \in 1..Len(boots_sample) : boots_sample[d] \in TargetsAt(S)
            /\ Len(boots_temp) = n
            /\ \A c \in 1..Len(boots_temp) :
                 boots_temp[c][1] * s = boots_temp[c][2] * SumDraws(c, n, s)
            /\ BetweenResampleMeans(col[1])
            /\ BetweenResampleMeans(col[2])
            /\ n = 1 => col = <<boots_temp[1], boots_temp[1]>>
            /\ n = 2 =>
                 LET a == IF RLe(boots_temp[1], boots_temp[2])
                          THEN boots_temp[1] ELSE boots_temp[2]
                     b == IF RLe(boots_temp[1], boots_temp[2])
                          THEN boots_temp[2] ELSE boots_temp[1]
                 IN  /\ 40 * col[1][1] * a[2] * b[2]
                          = col[1][2] * (39 * a[1] * b[2] + b[1] * a[2])
                     /\ 40 * col[2][1] * a[2] * b[2]
                          = col[2][2] * (a[1] * b[2] + 39 * b[1] * a[2])

C9_Witness ==
    /\ method = "median"
    /\ n_boots = <<2>>
    /\ i >= 1
    /\ Len(boots_sample) = 6
    /\ boots_temp = <<<<7, 3>>, <<11, 3>>>>
    /\ chart # <<>>

(* C10: resampling happens exactly when n_boots is truthy.  With n_boots   *)
(* None or 0 nothing is drawn and xerr is None; with a positive n_boots    *)
(* the chart gets the 2 x K percentile array, one column per category in   *)
(* the order of the categories and aggregates.                             *)
C10_BootstrapIffTruthy ==
    /\ BootsOff =>
         /\ percentile = <<>>
         /\ boots_sample = <<>>
         /\ boots_temp = <<>>
         /\ i = 0
         /\ pc # "boots_loop"
         /\ chart # <<>> => chart[1].xerr = <<>>
    /\ (BootsPositive /\ chart # <<>>) =>
         /\ percentile # <<>>
         /\ chart[1].xerr = percentile
         /\ Len(chart[1].xerr[1]) = Len(chart[1].categories)
         /\ Len(chart[1].xerr[1]) = Len(chart[1].data)
         /\ i = Len(chart[1].categories)
         /\ \A k \in 1..Len(chart[1].xerr[1]) :
              LET col == chart[1].xerr[1][k]
                  S == Positions(chart[1].categories[k])
              IN  /\ Len(col) = 2
                  /\ WithinTargets(col[1], S)
                  /\ WithinTargets(col[2], S)

C10_Witness ==
    /\ <<target, feature>> \in ExampleInputs
    /\ BootsPositive
    /\ chart # <<>>
    /\ chart[1].xerr = <<<<<<RInt(1), RInt(1)>>, <<RInt(5), RInt(5)>>>>>>

====
